---- MODULE Spec2Model ----
(***************************************************************************)
(* A model of parquet/main.py (class ParquetMain): the magic-byte checks,  *)
(* the footer read, and _dump's loops over row groups, column chunks and   *)
(* pages, with the rows it writes to its output sink.                      *)
(*                                                                         *)
(* The Thrift compact deserializer, the decompressors and parquet.encoding *)
(* are external to main.py: what they return for the bytes at the cursor   *)
(* is an input, drawn when the code makes the call.                        *)
(***************************************************************************)
EXTENDS Integers, Sequences, FiniteSets, TLC

(***************************************************************************)
(* Bounds of the model.                                                    *)
(***************************************************************************)
\* row groups per footer
MaxRG == 2
\* num_rows of a row group
MaxRows == 2
\* num_values of a data page
MaxNV == 2
\* compressed_page_size of a page, in bytes
MaxSize == 1
\* entries of a dictionary page
MaxDict == 1
\* bytes of a serialized PageHeader
MaxHdr == 1
\* bytes of the file that one column chunk's pages may occupy
ChunkLen == 3
\* names of a column's path_in_schema
MaxDepth == 2
\* bytes of a level stream after its 4-byte length
MaxStream == 1

(***************************************************************************)
(* Files.  A file is head \o (mid opaque bytes) \o (metaLen bytes holding  *)
(* a serialized FileMetaData) \o tail.  head and tail are explicit bytes;  *)
(* the bytes between them are page data and metadata, whose content is     *)
(* what the external parsers return for it.                                *)
(***************************************************************************)
MAGIC == <<80, 65, 82, 49>>          \* b'PAR1'
NOTMAGIC == <<80, 65, 82, 50>>       \* b'PAR2'
BLAH == <<98, 108, 97, 104>>         \* b'blah'

\* the four little-endian bytes of m, 0 <= m < 2^31
Bytes4(m) ==
  << m % 256, (m \div 256) % 256, (m \div 65536) % 256, (m \div 16777216) % 256 >>

\* struct.pack("<i", n): two's complement, the bytes of -(n+1) inverted for n < 0
LE(n) ==
  IF n >= 0 THEN Bytes4(n)
  ELSE [k \in 1..4 |-> 255 - Bytes4(-(n + 1))[k]]

FileSize(f) == Len(f.head) + f.mid + f.metaLen + Len(f.tail)

\* the byte at absolute offset i (0-based), i < FileSize(f)
ByteAt(f, i) ==
  IF i < Len(f.head) THEN f.head[i + 1]
  ELSE IF i >= FileSize(f) - Len(f.tail) THEN f.tail[i - (FileSize(f) - Len(f.tail)) + 1]
  ELSE 21

\* fo.seek(offset, whence): the new position, or -1 when the OS refuses a
\* negative position (OSError: Invalid argument)
Seek(f, offset, whence) ==
  LET p == IF whence = 0 THEN offset ELSE FileSize(f) + offset
  IN  IF p < 0 THEN -1 ELSE p

\* fo.read(n) at position p: the bytes p .. p+n-1 that exist
Read(f, p, n) ==
  LET last == IF p + n < FileSize(f) THEN p + n ELSE FileSize(f)
  IN  IF p >= last THEN << >> ELSE [k \in 1..(last - p) |-> ByteAt(f, p + k - 1)]

\* the position after fo.read(n) at p
AfterRead(f, p, n) ==
  IF p >= FileSize(f) THEN p
  ELSE IF p + n < FileSize(f) THEN p + n ELSE FileSize(f)

\* struct.unpack("<i", b)[0] of four bytes: a signed 32-bit integer
Unpack_i(b) ==
  IF b[4] < 128
    THEN b[1] + 256 * b[2] + 65536 * b[3] + 16777216 * b[4]
    ELSE -((255 - b[1]) + 256 * (255 - b[2]) + 65536 * (255 - b[3])
           + 16777216 * (255 - b[4])) - 1

(***************************************************************************)
(* The external parsers.                                                   *)
(***************************************************************************)
\* FileMetaData().read(pin) with the cursor at p: the serialized metadata
\* parses where it starts; a 0 byte is the compact protocol's STOP field and
\* parses as a FileMetaData with every field None; anything else, and the end
\* of the file, fails inside the protocol.
FileMetaData_read(f, p) ==
  IF f.metaLen > 0 /\ p = Len(f.head) + f.mid
    THEN [kind |-> "fmd", row_groups |-> f.meta, end |-> p + f.metaLen]
  ELSE IF p < FileSize(f) /\ ByteAt(f, p) = 0
    THEN [kind |-> "blank", row_groups |-> << >>, end |-> p + 1]
  ELSE [kind |-> "error", row_groups |-> << >>, end |-> p]

(***************************************************************************)
(* ParquetMain: the pure helpers.                                          *)
(***************************************************************************)
None == -1

\* a faulty variant of get_offset: the comparison the other way round
get_offset_swapped(cmd) ==
  IF cmd.dictionary_page_offset = None
       \/ cmd.dictionary_page_offset < cmd.data_page_offset
    THEN cmd.data_page_offset
    ELSE cmd.dictionary_page_offset

get_offset(cmd) ==
  IF cmd.dictionary_page_offset = None
       \/ cmd.data_page_offset < cmd.dictionary_page_offset
    THEN cmd.data_page_offset
    ELSE cmd.dictionary_page_offset

\* a faulty variant of check_header_magic_bytes: no seek to the start of the file
check_header_noseek(f, p) ==
  [ret |-> Read(f, p, 4) = MAGIC, pos |-> AfterRead(f, p, 4)]

\* _check_header_magic_bytes(fo) with the cursor at p: the result and the
\* cursor it leaves
check_header_magic_bytes(f, p) ==
  LET q == Seek(f, 0, 0)
  IN  [ret |-> Read(f, q, 4) = MAGIC, pos |-> AfterRead(f, q, 4)]

\* _check_footer_magic_bytes(fo) with the cursor at p; pos = -1: seek raised
check_footer_magic_bytes(f, p) ==
  LET q == Seek(f, -4, 2)
  IN  IF q = -1 THEN [ret |-> FALSE, pos |-> -1]
      ELSE [ret |-> Read(f, q, 4) = MAGIC, pos |-> AfterRead(f, q, 4)]

\* _validate_parquet_file: "ok", "NotParquet" (ParquetFormatException) or
\* "IOError"; the footer check runs only when the header check passed
validate_parquet_file(f, p) ==
  LET h == check_header_magic_bytes(f, p)
      t == check_footer_magic_bytes(f, h.pos)
  IN  IF ~h.ret THEN [res |-> "NotParquet", pos |-> h.pos]
      ELSE IF t.pos = -1 THEN [res |-> "IOError", pos |-> h.pos]
      ELSE IF ~t.ret THEN [res |-> "NotParquet", pos |-> t.pos]
      ELSE [res |-> "ok", pos |-> t.pos]

\* _get_footer_size: ok = FALSE when seek(-8, 2) raised (fewer than 8 bytes)
get_footer_size(f) ==
  LET q == Seek(f, -8, 2)
  IN  IF q = -1 THEN [ok |-> FALSE, size |-> 0]
      ELSE [ok |-> TRUE, size |-> Unpack_i(Read(f, q, 4))]

\* _read_footer with the cursor at p: the seek target, what the parse there
\* returns and the cursor it leaves.
\* res: "fmd", "blank", "IOError" (a seek raised) or "ThriftError".
read_footer_at(f, p) ==
  LET fs == get_footer_size(f)
      q == Seek(f, -(8 + fs.size), 2)
      m == FileMetaData_read(f, q)
  IN  IF ~fs.ok THEN [res |-> "IOError", lenRead |-> FALSE, seek |-> None,
                      row_groups |-> << >>, pos |-> p]
      ELSE IF q = -1 THEN [res |-> "IOError", lenRead |-> TRUE, seek |-> None,
                           row_groups |-> << >>, pos |-> FileSize(f) - 4]
      ELSE [res |-> IF m.kind = "error" THEN "ThriftError" ELSE m.kind,
            lenRead |-> TRUE, seek |-> q, row_groups |-> m.row_groups, pos |-> m.end]

(***************************************************************************)
(* The inputs: schema, column chunks, pages, options, files.               *)
(***************************************************************************)
\* the leaf columns of the schema, in schema order; every row group has one
\* chunk per leaf, path_in_schema = <<name>>, flat and REQUIRED
Cols == <<"a", "b">>

\* every key res may get: the leaves and the names a selection may hold
Names == {"a", "b", "zz"}

NoCmd == [dictionary_page_offset |-> None, data_page_offset |-> 0,
          codec |-> "UNCOMPRESSED"]

\* the bytes of chunk c of row group r: [ChunkBase, ChunkEnd)
ChunkBase(r, c) == 4 + ((r - 1) * Len(Cols) + (c - 1)) * (ChunkLen + 1)
ChunkEnd(r, c) == ChunkBase(r, c) + ChunkLen + 1

\* the ColumnMetaData a footer may give chunk c of row group r: the dictionary
\* offset absent, less than, equal to and greater than the data offset, and
\* the codecs UNCOMPRESSED, GZIP and (not supported) LZO
ColumnMetas(r, c) ==
  { [dictionary_page_offset |-> d, data_page_offset |-> ChunkBase(r, c) + k,
     codec |-> "UNCOMPRESSED"] :
      d \in {None, ChunkBase(r, c)}, k \in {0, 1} }
  \cup { [dictionary_page_offset |-> ChunkBase(r, c) + 1,
          data_page_offset |-> ChunkBase(r, c), codec |-> cd] :
           cd \in {"UNCOMPRESSED", "GZIP", "LZO"} }

\* A page as the code meets it: the PageHeader fields it reads, and what the
\* external decoders find in the payload: raw, the length the decompressor
\* returns (-1: it raises); avail, the number of values the value decoder can
\* return (plain values, dictionary entries, or dictionary indices), none
\* from an empty payload; idxhi, the largest dictionary index among them.
Page(t, c, u, r, nv, e, av, hi) ==
  { [type |-> t, hlen |-> h, compressed_page_size |-> c,
     uncompressed_page_size |-> u, raw |-> r, num_values |-> nv,
     encoding |-> e, avail |-> IF r <= 0 THEN 0 ELSE av, idxhi |-> hi] :
      h \in 1..MaxHdr }

\* the value regions a data page may hold for its num_values
DataPages(c, u, r) ==
  UNION { UNION { Page("DATA_PAGE", c, u, r, nv, "PLAIN", av, 0) :
                    av \in {nv - 1, nv} \cap (0..MaxNV) } : nv \in 0..MaxNV }
  \cup UNION { UNION { Page("DATA_PAGE", c, u, r, nv, "PLAIN_DICTIONARY", av, hi) :
                         av \in {nv - 1, nv, nv + 1} \cap (1..(MaxNV + 1)),
                         hi \in {0, 1} } : nv \in 0..MaxNV }
  \cup Page("DATA_PAGE", c, u, r, 1, "PLAIN_DICTIONARY", 0, 0)
  \cup Page("DATA_PAGE", c, u, r, 1, "RLE", 1, 0)

DictionaryPages(c, u, r) ==
  UNION { Page("DICTIONARY_PAGE", c, u, r, 0, "PLAIN", av, 0) : av \in 0..MaxDict }

\* pages whose payload fails before any value is decoded: one of each type
BrokenPages(c, u, r) ==
  Page("DATA_PAGE", c, u, r, 1, "PLAIN", 1, 0)
  \cup Page("DICTIONARY_PAGE", c, u, r, 0, "PLAIN", 1, 0)

IndexPages == UNION { Page("INDEX_PAGE", c, c, c, 0, "PLAIN", 0, 0) : c \in 0..MaxSize }

\* the pages of a chunk stored uncompressed: the payload is the bytes read
PagesPlain ==
  UNION { DataPages(c, c, c) \cup DictionaryPages(c, c, c)
          \cup BrokenPages(c, c + 1, c) : c \in 0..MaxSize }
  \cup IndexPages

\* the pages of a compressed chunk: the payload is what the decompressor
\* returns, one byte more than the bytes read
PagesCompressed ==
  UNION { DataPages(c, c + 1, c + 1) \cup DictionaryPages(c, c + 1, c + 1)
          \cup BrokenPages(c, c + 2, c + 1) \cup BrokenPages(c, c + 1, -1) :
            c \in 0..MaxSize }
  \cup IndexPages

Pages(codec) == IF codec = "GZIP" THEN PagesCompressed ELSE PagesPlain

Selections == { << >>, <<"b">>, <<"zz">> }

Options ==
  { o \in [col : Selections, format : {"csv", "json", "custom"},
           no_headers : BOOLEAN, limit : {-1, 0, 1, MaxRows + 1}] :
      /\ o.format # "csv" => o.no_headers
      /\ ~o.no_headers => o.limit = -1
      /\ o.format = "custom" => o.limit = -1 }

DefaultOptions == [col |-> << >>, format |-> "csv", no_headers |-> FALSE, limit |-> -1]

RECURSIVE SeqsUpTo(_, _)
SeqsUpTo(S, n) ==
  IF n = 0 THEN { << >> }
  ELSE LET shorter == SeqsUpTo(S, n - 1)
       IN  shorter \cup { Append(q, x) : q \in shorter, x \in S }

\* the row groups of a footer: the num_rows of each
Footers == SeqsUpTo(0..MaxRows, MaxRG) \ { << >> }

\* a well-formed file holding the row groups rgs
ValidFile(rgs) ==
  [head |-> MAGIC, mid |-> Len(rgs) * Len(Cols) * (ChunkLen + 1), metaLen |-> 1,
   tail |-> LE(1) \o MAGIC, meta |-> rgs]

\* files of a few bytes: b'', b'PA', b'PAR1', b'blah', b'PAR1PAR1',
\* b'PAR1' + pack(0) + b'PAR1'
SmallFiles ==
  { [head |-> h, mid |-> 0, metaLen |-> 0, tail |-> t, meta |-> << >>] :
      h \in {MAGIC, BLAH}, t \in {<< >>, MAGIC, LE(0) \o MAGIC} }
  \cup { [head |-> h, mid |-> 0, metaLen |-> 0, tail |-> << >>, meta |-> << >>] :
           h \in {<< >>, <<80, 65>>} }

\* files with metadata, any magic and any footer length
FooterFiles ==
  { [head |-> h, mid |-> Len(m) * Len(Cols) * (ChunkLen + 1), metaLen |-> ml,
     tail |-> LE(n) \o t, meta |-> m] :
      h \in {MAGIC, NOTMAGIC}, t \in {MAGIC, NOTMAGIC}, ml \in {1, 2},
      n \in {-9, -1, 0, 1, 2, 3, 5, 6, 20}, m \in {<< >>, <<1>>} }

Files == SmallFiles \cup FooterFiles

(***************************************************************************)
(* The state.                                                              *)
(***************************************************************************)
VARIABLES
  file,         \* the bytes of the file the operation is called on
  op,           \* the method called: check_header, check_footer, read_footer, dump
  opts,         \* dump's options: col, format, no_headers, limit
  pos,          \* fo's cursor
  pc,           \* where the call is: start, validated, rowgroup, column, page,
                \* rows, done, error
  err,          \* the exception that ended the call, "none" while there is none
  ret,          \* what a magic check returned: "none", "true", "false"
  footer,       \* the FileMetaData _read_footer returned
  lenRead,      \* _get_footer_size has read the four bytes at size - 8
  footerSeek,   \* where _read_footer put the cursor to parse, None before
  rg,           \* index of the row group of the for loop (1-based)
  colIdx,       \* index of the column chunk of the inner for loop (1-based)
  cmd,          \* the chunk's ColumnMetaData
  values_seen,  \* _dump's values_seen
  dict_items,   \* number of entries of _dump's dict_items
  res,          \* res: per key the number of values accumulated, None: no such key
  out,          \* what was written to the sink, in order
  total_count,  \* _dump's total_count
  row_i,        \* i of the loop over range(rg.num_rows)
  column,       \* read_data_page: the repetition types along cmd.path_in_schema
  page,         \* read_data_page: page_header and the length of its payload
  io,           \* read_data_page: the cursor of io_obj
  reads,        \* read_data_page: the reads of io_obj so far, in order
  definition_levels,  \* read_data_page's definition_levels
  vals          \* read_data_page's vals: their number, None before

vars == << file, op, opts, pos, pc, err, ret, footer, lenRead, footerSeek, rg,
           colIdx, cmd, values_seen, dict_items, res, out, total_count, row_i,
           column, page, io, reads, definition_levels, vals >>

fileVars == << file, op, opts >>
\* the locals of read_data_page
pageVars == << column, page, io, reads, definition_levels, vals >>
\* the locals of _dump
locals == << rg, colIdx, cmd, values_seen, dict_items, res, total_count, row_i >>

NoFooter == [kind |-> "none", row_groups |-> << >>]
\* definition_levels = None
NoLevels == [present |-> FALSE, n |-> 0, d |-> 0]
\* no data page at hand
NoPage == [num_values |-> 0]
EmptyRes == [k \in Names |-> None]

InitLocals ==
  /\ pc = "start" /\ err = "none" /\ ret = "none"
  /\ footer = NoFooter /\ lenRead = FALSE /\ footerSeek = None
  /\ rg = 0 /\ colIdx = 0 /\ cmd = NoCmd /\ values_seen = 0 /\ dict_items = 0
  /\ res = EmptyRes /\ out = << >> /\ total_count = 0 /\ row_i = 0
  /\ io = 0 /\ reads = << >> /\ definition_levels = NoLevels /\ vals = None

\* any file, any method, the cursor anywhere a caller may have left it
InitAnyFile ==
  /\ file \in Files
  /\ op \in {"check_header", "check_footer", "read_footer", "dump"}
  /\ opts = DefaultOptions
  /\ pos \in {0, 1, FileSize(file)}
  /\ op \in {"read_footer", "dump"} => pos = 0
  /\ column = << >> /\ page = NoPage

\* dump of a well-formed file, any footer, any options
InitDump ==
  /\ \E rgs \in Footers : file = ValidFile(rgs)
  /\ op = "dump"
  /\ opts \in Options
  /\ pos = 0
  /\ column = << >> /\ page = NoPage

Init == InitLocals /\ (InitAnyFile \/ InitDump)

\* a faulty variant of Raise: the exception is caught and logged, the method goes on
Raise_caught(e) ==
  /\ err' = e
  /\ UNCHANGED << pc, footer, rg, colIdx, cmd, values_seen, dict_items, res,
                  total_count, row_i >>

\* An exception leaves the method: its frame, with the locals, is gone.  The
\* cursor of fo and what was written to the sink stay.
Raise(e) ==
  /\ pc' = "error" /\ err' = e
  /\ footer' = NoFooter
  /\ rg' = 0 /\ colIdx' = 0 /\ cmd' = NoCmd /\ values_seen' = 0 /\ dict_items' = 0
  /\ res' = EmptyRes /\ total_count' = 0 /\ row_i' = 0

(***************************************************************************)
(* The magic checks and read_footer.                                       *)
(***************************************************************************)
\* _check_header_magic_bytes(fo), called on its own
CheckHeader ==
  /\ pc = "start" /\ op = "check_header"
  /\ LET r == check_header_magic_bytes(file, pos)
     IN  /\ ret' = IF r.ret THEN "true" ELSE "false"
         /\ pos' = r.pos
  /\ pc' = "done"
  /\ UNCHANGED << fileVars, pageVars, locals, out, err, footer, lenRead, footerSeek >>

\* _check_footer_magic_bytes(fo), called on its own
CheckFooter ==
  /\ pc = "start" /\ op = "check_footer"
  /\ LET r == check_footer_magic_bytes(file, pos)
     IN  IF r.pos = -1
           THEN Raise("IOError") /\ UNCHANGED << ret, pos >>
           ELSE /\ ret' = IF r.ret THEN "true" ELSE "false"
                /\ pos' = r.pos
                /\ pc' = "done"
                /\ UNCHANGED << err, footer, locals >>
  /\ UNCHANGED << fileVars, pageVars, out, lenRead, footerSeek >>

\* read_footer: self._validate_parquet_file(fileobj, filename)
Validate ==
  /\ pc = "start" /\ op = "read_footer"
  /\ LET v == validate_parquet_file(file, pos)
     IN  /\ pos' = v.pos
         /\ IF v.res = "ok"
              THEN pc' = "validated" /\ UNCHANGED << err, footer, locals >>
              ELSE Raise(v.res)
  /\ UNCHANGED << fileVars, pageVars, out, ret, lenRead, footerSeek >>

\* read_footer: return self._read_footer(fileobj)
ReadFooter ==
  /\ pc = "validated" /\ op = "read_footer"
  /\ LET r == read_footer_at(file, pos)
     IN  /\ pos' = r.pos
         /\ lenRead' = r.lenRead
         /\ footerSeek' = r.seek
         /\ IF r.res \in {"fmd", "blank"}
              THEN /\ footer' = [kind |-> r.res, row_groups |-> r.row_groups]
                   /\ pc' = "done"
                   /\ UNCHANGED << err, locals >>
              ELSE Raise(r.res)
  /\ UNCHANGED << fileVars, pageVars, out, ret >>

\* _dump: footer = self._read_footer(fo); schema_helper = ...; total_count = 0.
\* A FileMetaData with every field None has no schema and no row groups to
\* iterate: SchemaHelper(None) or the for loop raises TypeError.
DumpReadFooter ==
  /\ pc = "start" /\ op = "dump"
  /\ LET r == read_footer_at(file, pos)
     IN  /\ pos' = r.pos
         /\ lenRead' = r.lenRead
         /\ footerSeek' = r.seek
         /\ IF r.res = "fmd"
              THEN /\ footer' = [kind |-> r.res, row_groups |-> r.row_groups]
                   /\ pc' = "rowgroup"
                   /\ rg' = 1
                   /\ total_count' = 0
                   /\ UNCHANGED << err, colIdx, cmd, values_seen, dict_items,
                                   res, row_i >>
              ELSE Raise(IF r.res = "blank" THEN "TypeError" ELSE r.res)
  /\ UNCHANGED << fileVars, pageVars, out, ret >>

(***************************************************************************)
(* Reading pages.                                                          *)
(***************************************************************************)
Elems(q) == { q[j] : j \in 1..Len(q) }

\* the names bound at module level in main.py (imports, logger, classes):
\* a bare name inside a method resolves here or raises NameError
ModuleGlobals ==
  {"absolute_import", "division", "print_function", "gzip", "json", "logging",
   "struct", "io", "sys", "os", "defaultdict", "FileMetaData",
   "CompressionCodec", "Encoding", "FieldRepetitionType", "PageHeader",
   "PageType", "Type", "TCompactProtocol", "TTransportBase", "encoding",
   "schema", "logger", "snappy", "TFileObjectTransport",
   "ParquetFormatException", "ParquetMain"}

\* _read_page: "ok", or the exception it raises
read_page(c, pg) ==
  IF c.codec # "UNCOMPRESSED" /\ c.codec # "GZIP" THEN "ParquetFormatException: Unsupported Codec"
  ELSE IF c.codec = "GZIP" /\ pg.raw = -1 THEN "DecompressError"
  ELSE IF pg.raw # pg.uncompressed_page_size THEN "AssertionError: raw bytes"
  ELSE "ok"

\* _read_plain: num_values calls of reader.read_plain; the reader raises when
\* the payload is exhausted
read_plain(pg) ==
  IF pg.avail < pg.num_values THEN [err |-> "struct.error", n |-> 0]
  ELSE [err |-> "none", n |-> pg.num_values]

\* _read_plain_dict: one byte of bit width, the indices the hybrid decoder
\* returns mapped through the dictionary, cut to num_values
read_plain_dict(pg, dict) ==
  IF pg.raw < 1 THEN [err |-> "struct.error", n |-> 0]
  ELSE IF pg.avail > 0 /\ pg.idxhi >= dict THEN [err |-> "IndexError", n |-> 0]
  ELSE [err |-> "none",
        n |-> IF pg.avail > pg.num_values THEN pg.num_values ELSE pg.avail]

\* a faulty variant of read_data_page: no check of the number of dictionary values
read_data_page_unchecked(c, pg, dict) ==
  IF read_page(c, pg) # "ok" THEN [err |-> read_page(c, pg), n |-> 0]
  ELSE IF pg.encoding = "PLAIN" THEN read_plain(pg)
  ELSE IF pg.encoding = "PLAIN_DICTIONARY" THEN read_plain_dict(pg, dict)
  ELSE [err |-> "NameError: _get_name (encoding)", n |-> 0]

\* read_data_page for a flat REQUIRED column (no level streams): the number
\* of values returned, or the exception.  The unsupported-encoding branch
\* evaluates _get_name(...), a name main.py does not bind, before it can raise
\* its ParquetFormatException.
read_data_page(c, pg, dict) ==
  IF read_page(c, pg) # "ok" THEN [err |-> read_page(c, pg), n |-> 0]
  ELSE IF pg.encoding = "PLAIN" THEN read_plain(pg)
  ELSE IF pg.encoding = "PLAIN_DICTIONARY" THEN
    LET v == read_plain_dict(pg, dict)
    IN  IF v.err = "none" /\ v.n # pg.num_values
          THEN [err |-> "ParquetFormatException: not enough data", n |-> 0]
          ELSE v
  ELSE [err |-> IF "_get_name" \in ModuleGlobals
                  THEN "ParquetFormatException: Unsupported encoding"
                  ELSE "NameError: _get_name (encoding)",
        n |-> 0]

\* read_dictionary_page: plain values until the payload is used up
read_dictionary_page(c, pg) ==
  IF read_page(c, pg) # "ok" THEN [err |-> read_page(c, pg), n |-> 0]
  ELSE [err |-> "none", n |-> pg.avail]

(***************************************************************************)
(* _dump: the loops.                                                       *)
(***************************************************************************)
NumRows == footer.row_groups[rg]
ColName == Cols[colIdx]
Selected(name) == opts.col = << >> \/ name \in Elems(opts.col)
PageFits(pg) == pos + pg.hlen + pg.compressed_page_size <= ChunkEnd(rg, colIdx)

\* for rg in footer.row_groups: res = defaultdict(list)
NextRowGroup ==
  /\ pc = "rowgroup"
  /\ IF rg > Len(footer.row_groups)
       THEN pc' = "done" /\ UNCHANGED << res, colIdx >>
       ELSE pc' = "column" /\ res' = EmptyRes /\ colIdx' = 1
  /\ UNCHANGED << fileVars, pageVars, pos, err, ret, footer, lenRead, footerSeek, rg, cmd,
                  values_seen, dict_items, out, total_count, row_i >>

\* for idx, cg in enumerate(rg.columns): a column not selected
SkipColumn ==
  /\ pc = "column" /\ colIdx <= Len(Cols)
  /\ ~Selected(ColName)
  /\ colIdx' = colIdx + 1
  /\ UNCHANGED << fileVars, pageVars, pos, pc, err, ret, footer, lenRead, footerSeek, rg,
                  cmd, values_seen, dict_items, res, out, total_count, row_i >>

\* a selected column: offset = self._get_offset(cmd); fo.seek(offset, 0)
StartColumn ==
  /\ pc = "column" /\ colIdx <= Len(Cols)
  /\ Selected(ColName)
  /\ \E m \in ColumnMetas(rg, colIdx) :
       /\ cmd' = m
       /\ pos' = Seek(file, get_offset(m), 0)
  /\ dict_items' = 0 /\ values_seen' = 0
  /\ pc' = "page"
  /\ UNCHANGED << fileVars, pageVars, err, ret, footer, lenRead, footerSeek, rg, colIdx,
                  res, out, total_count, row_i >>

\* while values_seen < row_group_rows: the loop ends, on to the next chunk
\* (cmd, dict_items, values_seen are set anew before they are read again)
EndColumn ==
  /\ pc = "page" /\ values_seen >= NumRows
  /\ colIdx' = colIdx + 1
  /\ pc' = "column"
  /\ cmd' = NoCmd /\ dict_items' = 0 /\ values_seen' = 0
  /\ UNCHANGED << fileVars, pageVars, pos, err, ret, footer, lenRead, footerSeek, rg, res,
                  out, total_count, row_i >>

\* _read_page_header where the chunk's pages have ended: the bytes there are
\* no PageHeader and the protocol raises
HeaderError ==
  /\ pc = "page" /\ values_seen < NumRows
  /\ pos >= ChunkEnd(rg, colIdx)
  /\ Raise("ThriftError")
  /\ UNCHANGED << fileVars, pageVars, pos, ret, lenRead, footerSeek, out >>

\* ph.type == PageType.DATA_PAGE
DataPage ==
  /\ pc = "page" /\ values_seen < NumRows
  /\ \E pg \in Pages(cmd.codec) :
       /\ pg.type = "DATA_PAGE" /\ PageFits(pg)
       /\ LET r == read_data_page(cmd, pg, dict_items)
          IN  /\ pos' = pos + pg.hlen + pg.compressed_page_size
              /\ IF r.err = "none"
                   THEN /\ res' = [res EXCEPT ![ColName] =
                                     (IF @ = None THEN 0 ELSE @) + r.n]
                        /\ values_seen' = values_seen + pg.num_values
                        /\ UNCHANGED << pc, err, footer, rg, colIdx, cmd,
                                        dict_items, total_count, row_i >>
                   ELSE Raise(r.err)
  /\ UNCHANGED << fileVars, pageVars, ret, lenRead, footerSeek, out >>

\* ph.type == PageType.DICTIONARY_PAGE: assert dict_items == []
DictionaryPage ==
  /\ pc = "page" /\ values_seen < NumRows
  /\ \E pg \in Pages(cmd.codec) :
       /\ pg.type = "DICTIONARY_PAGE" /\ PageFits(pg)
       /\ IF dict_items # 0
            THEN Raise("AssertionError: dict_items") /\ pos' = pos + pg.hlen
            ELSE LET r == read_dictionary_page(cmd, pg)
                 IN  /\ pos' = pos + pg.hlen + pg.compressed_page_size
                     /\ IF r.err = "none"
                          THEN /\ dict_items' = r.n
                               /\ UNCHANGED << pc, err, footer, rg, colIdx, cmd,
                                               values_seen, res, total_count,
                                               row_i >>
                          ELSE Raise(r.err)
  /\ UNCHANGED << fileVars, pageVars, ret, lenRead, footerSeek, out >>

\* any other page type: logger.warn("Skipping ...".format(_get_name(...))).
\* The argument is evaluated first; the branch does not move the cursor.
OtherPage ==
  /\ pc = "page" /\ values_seen < NumRows
  /\ \E pg \in Pages(cmd.codec) :
       /\ pg.type = "INDEX_PAGE" /\ PageFits(pg)
       /\ pos' = pos + pg.hlen
  /\ IF "_get_name" \in ModuleGlobals
       THEN UNCHANGED << pc, err, footer, locals >>
       ELSE Raise("NameError: _get_name (page type)")
  /\ UNCHANGED << fileVars, pageVars, ret, lenRead, footerSeek, out >>

(***************************************************************************)
(* _dump: writing the row group.                                           *)
(***************************************************************************)
HasKey(name) == res[name] # None

\* keys = options.col if options.col else [s.name for s in footer.schema
\*                                          if s.name in res]
Keys == IF opts.col # << >> THEN opts.col ELSE SelectSeq(Cols, HasKey)

\* a line of the sink: the csv header, a csv or json row, or the call of the
\* custom callback with res (the number of values of each key)
Line(kind, i) ==
  [kind |-> kind, rg |-> rg, row |-> i, keys |-> Keys,
   counts |-> IF kind = "custom" THEN [j \in 1..Len(Keys) |-> res[Keys[j]]]
              ELSE << >>]

\* the first key whose column has no value at index i: res[k][i] raises there
BadKeys(i) == { j \in 1..Len(Keys) : res[Keys[j]] <= i }

\* the columns are read: the custom callback and return, or the csv header
Emit ==
  /\ pc = "column" /\ colIdx > Len(Cols)
  /\ IF opts.format = "custom"
       THEN /\ out' = Append(out, Line("custom", None))
            /\ pc' = "done"
       ELSE /\ out' = IF opts.format = "csv" /\ ~opts.no_headers
                        THEN Append(out, Line("header", None))
                        ELSE out
            /\ pc' = "rows"
  /\ row_i' = 0
  /\ UNCHANGED << fileVars, pageVars, pos, err, ret, footer, lenRead, footerSeek, rg, colIdx,
                  cmd, values_seen, dict_items, res, total_count >>

\* a faulty variant of LimitReached: one row more than the limit is written
LimitReached_late(i) == opts.limit # -1 /\ i + total_count > opts.limit

\* if options.limit != -1 and i + total_count >= options.limit
LimitReached(i) == opts.limit # -1 /\ i + total_count >= opts.limit

\* for i in range(rg.num_rows): the limit, then one csv or json line
WriteRow ==
  /\ pc = "rows" /\ row_i < NumRows
  /\ IF LimitReached(row_i)
       THEN pc' = "done" /\ UNCHANGED << err, footer, locals, out >>
     ELSE IF BadKeys(row_i) # {}
       THEN Raise("IndexError") /\ UNCHANGED out
       ELSE /\ out' = Append(out, Line("row", row_i))
            /\ row_i' = row_i + 1
            /\ UNCHANGED << pc, err, footer, rg, colIdx, cmd, values_seen,
                            dict_items, res, total_count >>
  /\ UNCHANGED << fileVars, pageVars, pos, ret, lenRead, footerSeek >>

\* the rows are written: total_count += rg.num_rows, next row group
EndRowGroup ==
  /\ pc = "rows" /\ row_i >= NumRows
  /\ total_count' = total_count + NumRows
  /\ rg' = rg + 1
  /\ row_i' = 0
  /\ pc' = "rowgroup"
  /\ UNCHANGED << fileVars, pageVars, pos, err, ret, footer, lenRead, footerSeek, colIdx, cmd,
                  values_seen, dict_items, res, out >>

Next ==
  \/ CheckHeader
  \/ CheckFooter
  \/ Validate
  \/ ReadFooter
  \/ DumpReadFooter
  \/ NextRowGroup
  \/ SkipColumn
  \/ StartColumn
  \/ EndColumn
  \/ HeaderError
  \/ DataPage
  \/ DictionaryPage
  \/ OtherPage
  \/ Emit
  \/ WriteRow
  \/ EndRowGroup

Spec == Init /\ [][Next]_vars

(***************************************************************************)
(* read_data_page, step by step: the payload, the level streams, the       *)
(* values.  parquet/schema.py and parquet/encoding.py are not at hand:     *)
(* SchemaHelper and the hybrid reader follow their description.            *)
(***************************************************************************)
RepetitionTypes == {"REQUIRED", "OPTIONAL", "REPEATED"}

RECURSIVE PathsOf(_)
\* the paths of exactly n names, each with its repetition type
PathsOf(n) ==
  IF n = 0 THEN { << >> }
  ELSE { Append(q, t) : q \in PathsOf(n - 1), t \in RepetitionTypes }

\* the columns: cmd.path_in_schema of 1..MaxDepth names
Columns == UNION { PathsOf(n) : n \in 1..MaxDepth }

\* schema_helper.is_required(path[-1])
is_required(path) == path[Len(path)] = "REQUIRED"

\* schema_helper.max_definition_level(path)
max_definition_level(path) ==
  Cardinality({ j \in 1..Len(path) : path[j] # "REQUIRED" })

\* schema_helper.max_repetition_level(path)
max_repetition_level(path) ==
  Cardinality({ j \in 1..Len(path) : path[j] = "REPEATED" })

\* encoding.width_from_max_int(n): the bits needed for 0..n
width_from_max_int(n) ==
  IF n = 0 THEN 0 ELSE IF n = 1 THEN 1 ELSE IF n < 4 THEN 2 ELSE 3

\* the shortest level stream: the 4-byte length and one byte of runs
MinStream == 5

\* what one call of reader.read_rle_bit_packed_hybrid(fo) may find at the
\* cursor: a stream of len bytes (length included) yielding n levels, d of
\* them equal to the maximum level
Streams ==
  { [len |-> 4 + l, n |-> n, d |-> d] :
      l \in 1..MaxStream, n \in 0..(MaxNV + 1), d \in 0..(MaxNV + 1) }

LevelStreams == { st \in Streams : st.d <= st.n /\ st.d >= st.n - 1 }

RECURSIVE SumField(_, _, _)
\* the sum of field fld over the first k streams of ss
SumField(ss, fld, k) ==
  IF k = 0 THEN 0 ELSE SumField(ss, fld, k - 1) + ss[k][fld]

\* _read_data(fo, fo_encoding, value_count, bit_width) with left bytes after
\* the cursor: every way the call may go.  RLE: the reader is called while
\* seen < value_count; it returns None at the end of the payload, raises on
\* a stream cut short.  calls: the calls of the reader, bytes: what they
\* consumed, n and d: the levels returned and those equal to the maximum.
read_data(fo_encoding, value_count, left) ==
  IF fo_encoding = "RLE" THEN
    { [err |-> IF SumField(ss, "n", Len(ss)) < value_count
                    /\ left - SumField(ss, "len", Len(ss)) > 0
                 THEN "struct.error" ELSE "none",
       n |-> SumField(ss, "n", Len(ss)),
       d |-> SumField(ss, "d", Len(ss)),
       bytes |-> SumField(ss, "len", Len(ss)),
       calls |-> IF SumField(ss, "n", Len(ss)) < value_count
                   THEN Len(ss) + 1 ELSE Len(ss)] :
        ss \in { q \in SeqsUpTo(LevelStreams, 2) :
                   /\ SumField(q, "len", Len(q)) <= left
                   /\ \A j \in 1..Len(q) : SumField(q, "n", j - 1) < value_count
                   /\ SumField(q, "n", Len(q)) < value_count =>
                        left - SumField(q, "len", Len(q)) < MinStream } }
  ELSE IF fo_encoding = "BIT_PACKED" THEN
    { [err |-> "NotImplementedError", n |-> 0, d |-> 0, bytes |-> 0, calls |-> 0] }
  ELSE { [err |-> "none", n |-> 0, d |-> 0, bytes |-> 0, calls |-> 0] }

\* reader.filter_values(dictionary, values, definition_levels): one entry per
\* level, the dictionary value of the next index where the level is the
\* maximum, the null sentinel elsewhere
filter_values(dict, avail, idxhi, levels) ==
  IF avail < levels.d \/ (levels.d > 0 /\ idxhi >= dict)
    THEN [err |-> "IndexError", n |-> 0]
    ELSE [err |-> "none", n |-> levels.n]

LevelEncodings == {"RLE", "BIT_PACKED", "PLAIN"}

\* the lengths of a payload: empty, one byte, one or two level streams, and
\* these with bytes of values behind them
PayloadSizes ==
  {0, 1, MinStream, MinStream + 1, MinStream + 2, 2 * MinStream,
   2 * MinStream + 1, 2 * MinStream + 2}

\* a data page handed to read_data_page: the fields of page_header it reads
\* and raw, the length of the payload _read_page returns
LevelPage(r, u, nv, e, de, re) ==
  [type |-> "DATA_PAGE", compressed_page_size |-> r, uncompressed_page_size |-> u,
   raw |-> r, num_values |-> nv, encoding |-> e,
   definition_level_encoding |-> de, repetition_level_encoding |-> re]

\* any payload length, number of values and encodings; one page whose header
\* announces another length than the payload has
LevelPages ==
  { LevelPage(r, r, nv, e, de, re) :
      r \in PayloadSizes, nv \in 0..MaxNV, e \in {"PLAIN", "PLAIN_DICTIONARY"},
      de \in LevelEncodings, re \in LevelEncodings }
  \cup { LevelPage(r, r, 1, "RLE", "RLE", "RLE") : r \in PayloadSizes }
  \cup { LevelPage(1, 2, 1, "PLAIN", "RLE", "RLE") }

\* read_data_page(fo, schema_helper, page_header, column_metadata, dictionary)
\* is called: any column, any data page, a dictionary of 0..MaxDict entries
InitPage ==
  /\ file = ValidFile(<<1>>) /\ op = "read_data_page" /\ opts = DefaultOptions
  /\ pos = ChunkBase(1, 1) + 1
  /\ pc = "start" /\ err = "none" /\ ret = "none"
  /\ footer = NoFooter /\ lenRead = FALSE /\ footerSeek = None
  /\ rg = 0 /\ colIdx = 0 /\ cmd = NoCmd /\ values_seen = 0
  /\ dict_items \in 0..MaxDict
  /\ res = EmptyRes /\ out = << >> /\ total_count = 0 /\ row_i = 0
  /\ column \in Columns /\ page \in LevelPages
  /\ io = 0 /\ reads = << >> /\ definition_levels = NoLevels /\ vals = None

\* what read_data_page does not change
pageFixed == << fileVars, ret, footer, lenRead, footerSeek, locals, out, column, page >>

\* an exception leaves read_data_page; what was read of io_obj stays read
RaisePage(e) ==
  /\ pc' = "error" /\ err' = e
  /\ io' = 0 /\ definition_levels' = NoLevels /\ vals' = None

\* one more read of io_obj in the log
Logged(what, n, bytes) ==
  Append(reads, [what |-> what, at |-> io, bytes |-> bytes, n |-> n])

\* raw_bytes = self._read_page(fo, page_header, column_metadata);
\* io_obj = io.BytesIO(raw_bytes)
ReadPageBytes ==
  /\ op = "read_data_page" /\ pc = "start"
  /\ pos' = pos + page.compressed_page_size
  /\ IF read_page(cmd, page) = "ok"
       THEN pc' = "definitions" /\ UNCHANGED << err, io, definition_levels, vals >>
       ELSE RaisePage(read_page(cmd, page))
  /\ UNCHANGED << pageFixed, reads >>

\* definition_levels = self._read_definitions(io_obj, daph, schema_helper,
\*                                            column_metadata)
ReadDefinitions ==
  /\ op = "read_data_page" /\ pc = "definitions"
  /\ IF is_required(column)
       THEN /\ definition_levels' = NoLevels
            /\ pc' = "repetitions"
            /\ UNCHANGED << err, io, reads, vals >>
     ELSE IF width_from_max_int(max_definition_level(column)) = 0
       THEN /\ definition_levels' = [present |-> TRUE, n |-> page.num_values,
                                     d |-> page.num_values]
            /\ pc' = "repetitions"
            /\ UNCHANGED << err, io, reads, vals >>
       ELSE \E o \in read_data(page.definition_level_encoding, page.num_values,
                               page.raw - io) :
              /\ reads' = IF o.calls > 0 THEN Logged("definition", o.n, o.bytes)
                          ELSE reads
              /\ IF o.err = "none"
                   THEN /\ definition_levels' = [present |-> TRUE, n |-> o.n, d |-> o.d]
                        /\ io' = io + o.bytes
                        /\ pc' = "repetitions"
                        /\ UNCHANGED << err, vals >>
                   ELSE RaisePage(o.err)
  /\ UNCHANGED << pageFixed, pos >>

\* self._read_repetitions(io_obj, daph, schema_helper, column_metadata): the
\* levels are read when the path has more than one name, and dropped
ReadRepetitions ==
  /\ op = "read_data_page" /\ pc = "repetitions"
  /\ IF Len(column) > 1
       THEN \E o \in read_data(page.repetition_level_encoding, page.num_values,
                               page.raw - io) :
              /\ reads' = IF o.calls > 0 THEN Logged("repetition", o.n, o.bytes)
                          ELSE reads
              /\ IF o.err = "none"
                   THEN /\ io' = io + o.bytes
                        /\ pc' = "values"
                        /\ UNCHANGED << err, definition_levels, vals >>
                   ELSE RaisePage(o.err)
       ELSE /\ pc' = "values"
            /\ UNCHANGED << err, io, reads, definition_levels, vals >>
  /\ UNCHANGED << pageFixed, pos >>

\* daph.encoding == Encoding.PLAIN: vals = self._read_plain(...); av is the
\* number of values reader.read_plain can return from the rest of the payload
ReadPlain ==
  /\ op = "read_data_page" /\ pc = "values" /\ page.encoding = "PLAIN"
  /\ \E av \in 0..MaxNV :
       /\ page.raw - io = 0 => av = 0
       /\ LET r == read_plain([num_values |-> page.num_values, avail |-> av])
          IN  /\ reads' = IF page.num_values > 0
                            THEN Logged("values", r.n, page.raw - io) ELSE reads
              /\ IF r.err = "none"
                   THEN /\ vals' = r.n
                        /\ pc' = "done"
                        /\ UNCHANGED << err, io, definition_levels >>
                   ELSE RaisePage(r.err)
  /\ UNCHANGED << pageFixed, pos >>

\* daph.encoding == Encoding.PLAIN_DICTIONARY: vals = self._read_plain_dict(...)
\* and the check of their number; av indices, the largest hi, are what the
\* hybrid reader returns for the bytes after the bit width
ReadPlainDict ==
  /\ op = "read_data_page" /\ pc = "values" /\ page.encoding = "PLAIN_DICTIONARY"
  /\ \E av \in 0..(MaxNV + 1), hi \in {0, 1} :
       /\ page.raw - io <= 1 => av = 0
       /\ av = 0 => hi = 0
       /\ LET pg == [raw |-> page.raw - io, avail |-> av, idxhi |-> hi,
                     num_values |-> page.num_values]
              v == IF page.raw - io >= 1 /\ definition_levels.present
                     THEN filter_values(dict_items, av, hi, definition_levels)
                     ELSE read_plain_dict(pg, dict_items)
              cut == IF v.n > page.num_values THEN page.num_values ELSE v.n
          IN  /\ reads' = Logged("values", cut, page.raw - io)
              /\ IF v.err # "none" THEN RaisePage(v.err)
                 ELSE IF cut # page.num_values
                   THEN RaisePage("ParquetFormatException: not enough data")
                   ELSE /\ vals' = cut
                        /\ pc' = "done"
                        /\ UNCHANGED << err, io, definition_levels >>
  /\ UNCHANGED << pageFixed, pos >>

\* any other encoding: raise ParquetFormatException(..., _get_name(...)), and
\* _get_name is no name of the module
UnsupportedEncoding ==
  /\ op = "read_data_page" /\ pc = "values"
  /\ page.encoding \notin {"PLAIN", "PLAIN_DICTIONARY"}
  /\ RaisePage(IF "_get_name" \in ModuleGlobals
                 THEN "ParquetFormatException: Unsupported encoding"
                 ELSE "NameError: _get_name (encoding)")
  /\ UNCHANGED << pageFixed, pos, reads >>

NextPage ==
  \/ ReadPageBytes
  \/ ReadDefinitions
  \/ ReadRepetitions
  \/ ReadPlain
  \/ ReadPlainDict
  \/ UnsupportedEncoding

SpecPage == InitPage /\ [][NextPage]_vars

(***************************************************************************)
(* The claims.                                                             *)
(***************************************************************************)
InDump == op = "dump"
Ended == pc \in {"done", "error"}

\* len(res[name]), 0 when res has no such key
Count(name) == IF res[name] = None THEN 0 ELSE res[name]

\* the column chunks of the current row group that the page loop has finished
ColumnsRead ==
  { j \in 1..Len(Cols) :
      /\ Selected(Cols[j])
      /\ \/ pc = "rows"
         \/ pc = "column" /\ j < colIdx
         \/ pc = "page" /\ (j < colIdx \/ (j = colIdx /\ values_seen >= NumRows)) }

\* C1 as stated: once the column reader of a row group has run to
\* completion, every selected column holds exactly num_rows values.
C1_ExactlyNumRows ==
  pc \in {"column", "page", "rows"} =>
    \A j \in ColumnsRead : Count(Cols[j]) = NumRows

\* C1, amended: once the column reader has run to completion, every selected
\* column holds at least num_rows values, none when num_rows is 0; and while a
\* chunk is read the values accumulated number what the data pages read so
\* far announced (the sum of their num_values), so the count is num_rows
\* only when the pages sum to it exactly.
C1_AtLeastNumRows ==
  /\ pc \in {"column", "page", "rows"} =>
       \A j \in ColumnsRead :
         /\ Count(Cols[j]) >= NumRows
         /\ NumRows = 0 => Count(Cols[j]) = 0
  /\ pc = "page" => Count(ColName) = values_seen

\* a chunk read to completion through a dictionary, in more values than rows
C1_Witness ==
  /\ pc = "page" /\ values_seen > NumRows /\ NumRows > 0
  /\ dict_items > 0 /\ Count(ColName) = values_seen

MagicAt(f, p) == \A k \in 0..3 : ByteAt(f, p + k) = MAGIC[k + 1]

\* a file that is no Parquet file: too short, or a magic marker missing
NotParquetFile(f) ==
  \/ FileSize(f) < 12
  \/ ~MagicAt(f, 0)
  \/ ~MagicAt(f, FileSize(f) - 4)

\* C2: read_footer and dump of a file shorter than 12 bytes or without PAR1
\* at either end fail with the not-a-Parquet-file error, before the footer
\* length is read and before any metadata or row is produced.
C2_ValidatesFirst ==
  (op \in {"read_footer", "dump"} /\ NotParquetFile(file)) =>
    /\ ~lenRead
    /\ footer.kind = "none"
    /\ out = << >>
    /\ Ended => err = "NotParquet"

\* C3: on a file of at least 4 bytes, whatever the cursor was, the header
\* check returns true exactly when bytes [0..4) are PAR1 and the footer check
\* returns true exactly when bytes [size-4..size) are PAR1.
C3_MagicChecks ==
  (op \in {"check_header", "check_footer"} /\ FileSize(file) >= 4 /\ pc # "start") =>
    /\ pc = "done"
    /\ op = "check_header" => (ret = "true" <=> MagicAt(file, 0))
    /\ op = "check_footer" => (ret = "true" <=> MagicAt(file, FileSize(file) - 4))
    /\ ret \in {"true", "false"}

\* the footer check returned true on a file that does not start with PAR1
C3_Witness ==
  /\ op = "check_footer" /\ pc = "done" /\ ret = "true"
  /\ ~MagicAt(file, 0) /\ FileSize(file) >= 12

\* C4: with correct magic, a footer length that is not in 1 .. size - 12 makes
\* the footer read fail, and the reader never puts the cursor to a footer start
\* before offset 4 or outside the file.
C4_FooterLengthChecked ==
  (lenRead /\ ~NotParquetFile(file)) =>
    LET n == get_footer_size(file).size
    IN  /\ ~(0 < n /\ n <= FileSize(file) - 12) =>
             /\ footerSeek = None
             /\ footer.kind = "none"
             /\ Ended => err # "none"
        /\ footerSeek # None => (4 <= footerSeek /\ footerSeek < FileSize(file))

\* the offset the spec gives a chunk's first page
StartOffset(c) ==
  IF c.dictionary_page_offset # None
       /\ c.dictionary_page_offset < c.data_page_offset
    THEN c.dictionary_page_offset
    ELSE c.data_page_offset

\* C5: the page loop of every chunk starts reading at dictionary_page_offset
\* when that is present and less than data_page_offset, and at
\* data_page_offset otherwise.
C5_StartOffset ==
  [][(pc = "column" /\ pc' = "page") => pos' = StartOffset(cmd')]_vars

\* a chunk whose dictionary offset is the smaller one, about to be read there
C5_Witness ==
  /\ pc = "page" /\ cmd.dictionary_page_offset # None
  /\ cmd.dictionary_page_offset < cmd.data_page_offset
  /\ pos = cmd.dictionary_page_offset

\* C6: while the column chunks of a row group are decoded none of its rows is
\* in the sink; the step that raises writes nothing; and once an error has
\* occurred dump has ended with it: nothing is written, nothing else happens.
C6_ErrorsAbort ==
  /\ [](pc \in {"column", "page"} => \A k \in 1..Len(out) : out[k].rg < rg)
  /\ [][err' # "none" => (out' = out /\ pc' = "error")]_vars
  /\ [][err # "none" => (out' = out /\ err' = err /\ pc' = "error")]_vars

\* a size mismatch in a later row group, after the rows of the first were written
C6_Witness ==
  /\ InDump /\ pc = "error" /\ err = "AssertionError: raw bytes"
  /\ Len(out) > 0 /\ out[Len(out)].kind = "row"

\* C7: without a row limit, a dump that ends without error has delivered
\* every row group to the sink, in file order, in every output format.
C7_AllRowGroupsDelivered ==
  (InDump /\ pc = "done" /\ opts.limit = -1) =>
    /\ \A r \in 1..Len(footer.row_groups) :
         IF opts.format = "custom"
           THEN \E k \in 1..Len(out) : out[k].kind = "custom" /\ out[k].rg = r
           ELSE \A i \in 0..(footer.row_groups[r] - 1) :
                  \E k \in 1..Len(out) :
                    out[k].kind = "row" /\ out[k].rg = r /\ out[k].row = i
    /\ \A k \in 1..Len(out) : \A l \in k..Len(out) : out[k].rg <= out[l].rg

\* C8: a selection naming a column the schema does not have makes dump fail
\* with an unknown-column error and no row, whatever the row group's size;
\* with an empty selection every line holds all leaf columns in schema order.
C8_UnknownColumn ==
  InDump =>
    /\ (\E j \in 1..Len(opts.col) : opts.col[j] \notin Elems(Cols)) =>
         /\ Ended => err = "UnknownColumn"
         /\ \A k \in 1..Len(out) : out[k].kind = "header"
    /\ opts.col = << >> => \A k \in 1..Len(out) : out[k].keys = Cols

\* C9: a dictionary page sets the dictionary only when it is the first page
\* read in the chunk (the cursor is still where the chunk's pages start).
C9_DictionaryFirst ==
  [][(pc = "page" /\ pc' = "page" /\ dict_items' # dict_items)
       => pos = get_offset(cmd)]_vars

\* C10: a page header of type INDEX_PAGE is skipped: no error, the loop goes
\* on, no value is added, values_seen stays, and the cursor ends
\* compressed_page_size bytes after the header.
C10_IndexPageSkipped ==
  [][OtherPage =>
       /\ pc' = "page" /\ err' = "none"
       /\ values_seen' = values_seen /\ res' = res
       /\ \E pg \in Pages(cmd.codec) :
            /\ pg.type = "INDEX_PAGE" /\ PageFits(pg)
            /\ pos' = pos + pg.hlen + pg.compressed_page_size]_vars

RECURSIVE SumTo(_, _)
\* the rows of the first n row groups of q
SumTo(q, n) == IF n = 0 THEN 0 ELSE SumTo(q, n - 1) + q[n]

\* the data rows among the first n lines of the sink
RowsIn(n) == Cardinality({ k \in 1..n : out[k].kind = "row" })

\* C14: with csv or json output and a limit L >= 0, a dump that ends without
\* error has written min(L, rows of all row groups) data rows, and never more
\* than L at any moment; with limit -1 it has written every row of every row
\* group.  The j-th data row written is the j-th row of the file, counted
\* across the row groups in file order.
C14_Limit ==
  (InDump /\ opts.format # "custom") =>
    LET total == SumTo(file.meta, Len(file.meta))
    IN  /\ opts.limit >= 0 => RowsIn(Len(out)) <= opts.limit
        /\ (pc = "done" /\ err = "none") =>
              RowsIn(Len(out)) = IF opts.limit = -1 \/ total < opts.limit
                                   THEN total ELSE opts.limit
        /\ \A k \in 1..Len(out) :
              out[k].kind = "row" =>
                RowsIn(k) = SumTo(file.meta, out[k].rg - 1) + out[k].row + 1

\* a dump cut by its limit inside the second row group
C14_Witness ==
  /\ InDump /\ pc = "done" /\ err = "none"
  /\ opts.limit = MaxRows + 1 /\ RowsIn(Len(out)) = opts.limit
  /\ SumTo(file.meta, Len(file.meta)) > opts.limit
  /\ out[Len(out)].rg = 2

InReadDataPage == op = "read_data_page"

\* the places in the log of the reads of one kind
ReadsOf(what) == { i \in 1..Len(reads) : reads[i].what = what }

\* those that found a stream: bytes of the payload were consumed
StreamsRead(what) == { i \in ReadsOf(what) : reads[i].bytes > 0 }

\* C11: read_data_page reads the payload in the order repetition levels,
\* definition levels, values: when both level streams are there and read, the
\* repetition levels are read first, at the lower offset, and the values are
\* read after every level stream.
C11_RepetitionsFirst ==
  InReadDataPage =>
    /\ \A i \in StreamsRead("repetition") : \A j \in StreamsRead("definition") :
         i < j /\ reads[i].at < reads[j].at
    /\ \A i \in ReadsOf("values") :
         \A j \in ReadsOf("repetition") \cup ReadsOf("definition") : j < i

\* C12: once read_data_page is past the repetition levels of a page that has
\* values, it has read a repetition level stream from the payload if and only
\* if the maximum repetition level of the column's path is above 0; with
\* maximum 0, whatever the length of the path, no byte was consumed for them,
\* and a stream that was read gave exactly num_values levels.
C12_RepetitionStream ==
  (InReadDataPage /\ pc \in {"values", "done"} /\ page.num_values > 0) =>
    /\ max_repetition_level(column) = 0 => StreamsRead("repetition") = {}
    /\ max_repetition_level(column) > 0 =>
         /\ ReadsOf("repetition") # {}
         /\ \A i \in ReadsOf("repetition") : reads[i].n = page.num_values

\* C13: a data page decoded without error, PLAIN or PLAIN_DICTIONARY, returns
\* as many values as there are definition levels equal to the maximum when the
\* column has definition levels (one for each of the num_values positions),
\* and num_values values when it has none.
C13_ValueCount ==
  (InReadDataPage /\ pc = "done"
     /\ (definition_levels.present => definition_levels.n = page.num_values)) =>
    vals = IF definition_levels.present THEN definition_levels.d
           ELSE page.num_values

====
